---- MODULE Spec2Model ----
(***************************************************************************)
(* Agent console of the WhatsApp inbox (frontend/src/App.jsx): the polling *)
(* synchroniser, the composer (attachment builder) and the audio recorder. *)
(* Every fetch is a record in `net`: it is issued by a handler, answered   *)
(* by the backend, and its answer is processed by the continuation of the  *)
(* async function that issued it, with the values that function closed     *)
(* over when it was called.                                                *)
(***************************************************************************)
EXTENDS Integers, Sequences, FiniteSets, TLC

\* ------------------------------------------------------------------ bounds
MaxTs == 2            \* largest updated_at the backend reaches
MaxInflight == 2      \* requests of the inbox in flight at once
MaxPending == 1       \* uploads and sends of the composer in flight at once
MaxTextLen == 2       \* characters in the composer text
MaxSeconds == 2       \* largest value of the recording timer
MaxSessions == 2      \* record gestures in one run
MaxEdited == 2        \* numeric settings the user has off their defaults at once

\* ------------------------------------------------------------------ values
Phones == {"5730000001", "5730000002"}
NoPhone == "null"                 \* selectedPhone before any selection
Absent == -1                      \* no conversation for the phone yet
NoDate == 0                       \* a conversation without updated_at
NullS == "<null>"                 \* null in a string-valued field
UndefS == "<undefined>"           \* undefined in a string-valued field
NullN == -1                       \* null in a number-valued field
UndefN == -2                      \* undefined in a number-valued field
NoAttachment == [kind |-> "none"] \* attachment === null
NoneId == 0                       \* a ref holding null
NoProduct == 0                    \* sendingProductId holding null

VARIABLES
  selectedPhone,      \* useState(null)
  conversations,      \* useState([]): the list shown in the inbox
  messages,           \* useState([]): the messages shown in the chat window
  prevConversations,  \* prevConversationsRef: Map phone -> timestamp
  didFirstLoad,       \* didFirstLoadRef
  text,               \* composer text
  attachment,         \* staged attachment or NoAttachment
  showAttachMenu,
  filePickKind,
  picking,            \* the file dialog of the hidden input is open
  isRecording,
  recordSeconds,
  recorderRef,        \* id of the MediaRecorder in recorderRef, or NoneId
  recTimerRef,        \* id of the session whose interval recTimerRef holds
  sessions,           \* microphone streams acquired so far, with their recorder
  nextSession,        \* number of record gestures made
  net,                \* requests in flight
  srv,                \* backend: updated_at of each phone's conversation
  notice,             \* alert() shown by the last handler ("" when none)
  q,                  \* search text of the inbox (stands for the four filters)
  convTimers,         \* active intervals of the conversation polling effect
  msgTimers,          \* active intervals of the message polling effect
  mounted,            \* App is mounted
  modelsByProvider,   \* AIPanel: provider -> cached model list
  modelsLoading,      \* AIPanel
  modelsError,        \* AIPanel
  draft,              \* AIPanel: the settings being edited
  settings,           \* AIPanel: the settings as the server last sent them
  aiStatus,           \* AIPanel: status
  aiSaving,           \* AIPanel: saving
  aiLoading,          \* AIPanel: loading
  crmForm,            \* CustomerCardCRM: form
  crmDirty,           \* CustomerCardCRM: dirty
  crmSaving,          \* CustomerCardCRM: saving
  crmStatus,          \* CustomerCardCRM: status
  crmOwner,           \* for each field, the phone its value was loaded or typed for (history)
  crmSynced,          \* the field values last loaded and those last saved with success (history)
  showProductModal,   \* useState(false)
  prodQ,              \* useState(""): the search box of the product modal
  products,           \* useState([]): the ids of the products shown in the modal
  prodLoading,        \* useState(false)
  prodError,          \* useState("")
  sendingProductId,   \* useState(null)
  escaped,            \* handlers whose promise rejected with nobody catching it
  stagedFor,          \* the phone selected when the text was typed and when the
                      \* attachment was staged (history)
  last                \* what the last handler step did (history)

inboxVars == <<selectedPhone, conversations, messages, prevConversations, didFirstLoad>>
composerVars == <<text, attachment, showAttachMenu, filePickKind, picking>>
recorderVars == <<isRecording, recordSeconds, recorderRef, recTimerRef, sessions, nextSession>>
pollVars == <<q, convTimers, msgTimers, mounted>>
panelVars == <<modelsByProvider, modelsLoading, modelsError, draft, settings,
               aiStatus, aiSaving, aiLoading>>
crmVars == <<crmForm, crmDirty, crmSaving, crmStatus, crmOwner, crmSynced>>
productVars == <<showProductModal, prodQ, products, prodLoading, prodError,
                 sendingProductId>>
actionVars == <<productVars, escaped>>
sideVars == <<pollVars, panelVars, crmVars, actionVars, stagedFor>>
vars == <<inboxVars, composerVars, recorderVars, net, srv, notice, last, sideVars>>

\* ------------------------------------------------------------- the backend
SrvVals == {Absent, NoDate} \cup (1..MaxTs)

\* a handler step no property looks back at
Idle == [op |-> "idle"]

RECURSIVE SortedPhones(_, _)
\* the phones of S by descending updated_at (the order of the list response)
SortedPhones(S, s) ==
  IF S = {} THEN <<>>
  ELSE LET p == CHOOSE x \in S : \A y \in S : s[x] >= s[y]
       IN <<p>> \o SortedPhones(S \ {p}, s)

\* GET /api/conversations: one entry per existing conversation
ServerList(s) ==
  LET ps == SortedPhones({p \in Phones : s[p] # Absent}, s)
  IN [i \in 1..Len(ps) |-> [phone |-> ps[i], updated_at |-> s[ps[i]]]]

\* GET /api/conversations?search=q: the conversations whose phone matches
ServerSearch(s, qq) ==
  SelectSeq(ServerList(s), LAMBDA c : qq = "" \/ c.phone = qq)

\* GET /api/conversations/{phone}/messages
ServerMessages(p, s) ==
  [i \in 1..(IF s[p] > 0 THEN s[p] ELSE 0) |-> [phone |-> p, id |-> i]]

Pending == [st |-> "pending"]
Thrown == [st |-> "throw"]        \* network error or unparsable body
Json(ok, data) == [st |-> "json", ok |-> ok, data |-> data]
ErrorJson == Json(FALSE, [detail |-> "error"])

\* a new message arrives for p (or its conversation is created)
ServerUpdate(p) ==
  /\ \E t \in 1..MaxTs : t > srv[p] /\ srv' = [srv EXCEPT ![p] = t]
  /\ last' = Idle
  /\ notice' = ""
  /\ UNCHANGED <<inboxVars, composerVars, recorderVars, net, sideVars>>

\* ------------------------------------------------- requests of the inbox
\* sel and q are the selectedPhone and the search text of the render whose
\* loadConversations is called, now or when the request has settled
ConvReq(sel, qq) == [kind |-> "conv", sel |-> sel, q |-> qq, body |-> Pending]
MsgsReq(p, then, sel, qq) ==
  [kind |-> "msgs", phone |-> p, then |-> then, sel |-> sel, q |-> qq, body |-> Pending]
ReadReq(p, then, sel, qq) ==
  [kind |-> "read", phone |-> p, then |-> then, sel |-> sel, q |-> qq]

\* `await loadConversations()` of sendWCProduct: the handler goes on when the
\* fetch has settled
ProductListReq(sel, qq) ==
  [kind |-> "conv", sel |-> sel, q |-> qq, body |-> Pending, then |-> "product"]

\* what sendWCProduct does after its `await loadConversations()`, and its
\* finally block
AfterListFetch(r) ==
  IF "then" \in DOMAIN r
  THEN /\ showProductModal' = FALSE
       /\ prodQ' = ""
       /\ products' = <<>>
       /\ sendingProductId' = NoProduct
       /\ UNCHANGED <<prodLoading, prodError>>
  ELSE UNCHANGED productVars

\* the backend answers a list or message fetch with a 2xx status and the data
\* it holds at that moment; the response reaches the client later
Answer(r) ==
  /\ r \in net /\ r.kind \in {"conv", "msgs"} /\ r.body = Pending
  /\ net' = (net \ {r}) \cup
            {[r EXCEPT !.body =
                IF r.kind = "conv" THEN Json(TRUE, [conversations |-> ServerSearch(srv, r.q)])
                ELSE Json(TRUE, [messages |-> ServerMessages(r.phone, srv)])]}
  /\ last' = Idle
  /\ notice' = ""
  /\ UNCHANGED <<inboxVars, composerVars, recorderVars, srv, sideVars>>

\* what the continuation of a fetch receives: the answer, or, for a request
\* that was not answered with data, a failure of fetch() / r.json() or an
\* error status with a JSON body
Outcomes(r) == IF r.body = Pending THEN {Thrown, ErrorJson} ELSE {r.body}

\* ---------------------------------------------------- loadConversations
\* new Date(c.updated_at).getTime(), 0 when updated_at is missing
CurTs(c) == IF c.updated_at = NoDate THEN 0 ELSE c.updated_at

\* prev.get(phone) || 0
PrevTs(prev, p) == IF p \in DOMAIN prev /\ prev[p] # 0 THEN prev[p] ELSE 0

\* data.conversations || []
ListOf(data) == IF "conversations" \in DOMAIN data THEN data.conversations ELSE <<>>

\* data.messages || []
MessagesOf(data) == IF "messages" \in DOMAIN data THEN data.messages ELSE <<>>

\* the condition of the ding, with the selectedPhone the call closed over
Advanced(c, prev, sel) ==
  CurTs(c) # 0 /\ CurTs(c) > PrevTs(prev, c.phone) /\ c.phone # sel

RECURSIVE DingCount(_, _, _)
\* calls of playDing made by the loop over the list: it breaks at the first
DingCount(list, prev, sel) ==
  IF list = <<>> THEN 0
  ELSE IF Advanced(Head(list), prev, sel) THEN 1
  ELSE DingCount(Tail(list), prev, sel)

\* the map built from the list: a later entry of a phone overwrites an earlier
NextMap(list) ==
  [p \in {list[i].phone : i \in 1..Len(list)} |->
     CurTs(list[CHOOSE i \in 1..Len(list) :
                  /\ list[i].phone = p
                  /\ \A j \in 1..Len(list) : list[j].phone = p => j <= i])]

\* the continuation of loadConversations after `await fetch` / `await r.json()`
LoadConversationsDone(r) ==
  /\ r \in net /\ r.kind = "conv"
  /\ net' = net \ {r}
  /\ notice' = ""
  /\ \E b \in Outcomes(r) :
       IF b = Thrown
       THEN /\ UNCHANGED inboxVars
            /\ last' = [op |-> "loadConversations", caught |-> TRUE, ok |-> FALSE,
                        baseline |-> ~didFirstLoad, dings |-> 0,
                        prev |-> prevConversations, closed |-> r.sel]
       ELSE LET list == ListOf(b.data)
                n == IF didFirstLoad THEN DingCount(list, prevConversations, r.sel) ELSE 0
            IN /\ didFirstLoad' = TRUE
               /\ prevConversations' = NextMap(list)
               /\ conversations' = list
               /\ UNCHANGED <<selectedPhone, messages>>
               /\ last' = [op |-> "loadConversations", caught |-> FALSE, ok |-> b.ok,
                           baseline |-> ~didFirstLoad, dings |-> n,
                           prev |-> prevConversations, closed |-> r.sel, list |-> list]
  /\ AfterListFetch(r)
  /\ UNCHANGED <<composerVars, recorderVars, srv, pollVars, panelVars, crmVars, escaped, stagedFor>>

\* the interval closes over a render with an empty search box (an effect
\* whose dependencies leave q out)
ConvTimerNoSearch(sel, qq) == [sel |-> sel, q |-> ""]

\* the interval of the conversation polling effect, with the render it closed over
ConvTimer(sel, qq) == [sel |-> sel, q |-> qq]

\* the interval of the message polling effect
MsgTimer(p) == [phone |-> p]

\* an effect is re-run without its cleanup: the old interval keeps running
RestartLeaky(timers, started) == timers \cup started

\* an effect is re-run: its cleanup clears the old interval, then the body
\* starts the new one
RestartEffect(timers, started) == started

\* setInterval(loadConversations, 2500): the closure of the effect's render
PollTick ==
  /\ \E t \in convTimers : net' = net \cup {ConvReq(t.sel, t.q)}
  /\ last' = Idle
  /\ notice' = ""
  /\ UNCHANGED <<inboxVars, composerVars, recorderVars, srv, sideVars>>

\* loadMessages(phone) called by the message polling effect (nothing
\* follows it, so no closure is kept with the request)
MsgsPoll(p) == MsgsReq(p, "none", p, "")

\* setInterval(() => loadMessages(selectedPhone), 2500)
MsgPollTick ==
  /\ \E t \in msgTimers : net' = net \cup {MsgsPoll(t.phone)}
  /\ last' = Idle
  /\ notice' = ""
  /\ UNCHANGED <<inboxVars, composerVars, recorderVars, srv, sideVars>>

\* the search box (the three filters behave the same way): the conversation
\* polling effect is cleaned up and re-run with the new render
Searches == {"", "5730000001"}

SetSearch(qq) ==
  /\ mounted
  /\ qq # q
  /\ q' = qq
  /\ net' = net \cup {ConvReq(selectedPhone, qq)}
  /\ convTimers' = RestartEffect(convTimers, {ConvTimer(selectedPhone, qq)})
  /\ last' = [op |-> "setSearch"]
  /\ notice' = ""
  /\ UNCHANGED <<inboxVars, composerVars, recorderVars, srv, msgTimers, mounted,
                 panelVars, crmVars, actionVars, stagedFor>>

\* App unmounts: the cleanups of both polling effects run
Unmount ==
  /\ mounted
  /\ mounted' = FALSE
  /\ convTimers' = RestartEffect(convTimers, {})
  /\ msgTimers' = RestartEffect(msgTimers, {})
  /\ last' = Idle
  /\ notice' = ""
  /\ UNCHANGED <<inboxVars, composerVars, recorderVars, net, srv, q,
                 panelVars, crmVars, actionVars, stagedFor>>

\* ChatList with a client-side search over the list it is given
ChatListFiltered(convs, qq) == SelectSeq(convs, LAMBDA c : qq = "" \/ c.phone = qq)

\* the entries ChatList renders: one per conversation it is given, in order
ChatList(convs, qq) == [i \in 1..Len(convs) |-> convs[i]]

\* a click on a conversation of the list: selectChat, then the effects that
\* depend on selectedPhone when it changed
SelectChatWith(p, card) ==
  /\ \E i \in 1..Len(ChatList(conversations, q)) : ChatList(conversations, q)[i].phone = p
  /\ mounted
  /\ selectedPhone' = p
  /\ net' = net \cup {ReadReq(p, "selectChat", selectedPhone, q)}
                 \cup (IF p # selectedPhone
                       THEN {ConvReq(p, q), MsgsPoll(p)} \cup card
                       ELSE {})
  /\ IF p # selectedPhone
     THEN /\ convTimers' = RestartEffect(convTimers, {ConvTimer(p, q)})
          /\ msgTimers' = RestartEffect(msgTimers, {MsgTimer(p)})
     ELSE UNCHANGED <<convTimers, msgTimers>>
  /\ last' = [op |-> "selectChat", phone |-> p,
              reads |-> IF p # selectedPhone THEN 2 ELSE 1]
  /\ notice' = ""
  /\ UNCHANGED <<conversations, messages, prevConversations, didFirstLoad,
                 composerVars, recorderVars, srv,
                 q, mounted, panelVars, crmVars, actionVars, stagedFor>>

\* the click seen from the inbox: the CRM card plays no part
SelectChat(p) == SelectChatWith(p, {})

\* the click with the CRM card: its effect on the phone prop calls load()
SelectChatCrm(p) == SelectChatWith(p, {[kind |-> "crmLoad", phone |-> p]})

\* selectChat when it ends with markRead
AfterMarkReadNone(r) == {}

\* selectChat after `await markRead(phone)`: the loadConversations of the
\* render that handled the click
AfterMarkRead(r) == IF r.then = "selectChat" THEN {ConvReq(r.sel, r.q)} ELSE {}

\* markRead's fetch settles (fulfilled or rejected, markRead catches both),
\* selectChat goes on
MarkReadDone(r) ==
  /\ r \in net /\ r.kind = "read"
  /\ net' = (net \ {r}) \cup AfterMarkRead(r)
  /\ \E ok \in BOOLEAN :
       last' = [op |-> "markRead", phone |-> r.phone, then |-> r.then,
                sel |-> r.sel, q |-> r.q, ok |-> ok]
  /\ notice' = ""
  /\ UNCHANGED <<inboxVars, composerVars, recorderVars, srv, sideVars>>

\* the composer when a sent message is not cleared
AfterSendKept(txt, att, menu) == <<txt, att, menu>>

\* setText(""), setAttachment(null), setShowAttachMenu(false) after a send
AfterSend(txt, att, menu) == <<<<>>, NoAttachment, FALSE>>

\* the continuation of loadMessages, and of sendMessage when it awaited it
LoadMessagesDone(r) ==
  /\ r \in net /\ r.kind = "msgs"
  /\ \E b \in Outcomes(r) :
       /\ messages' = IF b = Thrown THEN messages ELSE MessagesOf(b.data)
       /\ IF r.then = "send"
          THEN last' = [op |-> "sendMessage", stage |-> "done", phone |-> r.phone,
                        text |-> text, attachment |-> attachment, menu |-> showAttachMenu]
          ELSE last' = [op |-> "loadMessages", phone |-> r.phone,
                        ok |-> b # Thrown /\ b.ok]
  /\ notice' = ""
  /\ IF r.then = "send"
     THEN /\ text' = AfterSend(text, attachment, showAttachMenu)[1]
          /\ attachment' = AfterSend(text, attachment, showAttachMenu)[2]
          /\ showAttachMenu' = AfterSend(text, attachment, showAttachMenu)[3]
          /\ net' = (net \ {r}) \cup {ConvReq(r.sel, r.q)}
          /\ UNCHANGED <<filePickKind, picking>>
     ELSE /\ net' = (net \ {r}) \cup
                    (IF r.then = "product" THEN {ProductListReq(r.sel, r.q)} ELSE {})
          /\ UNCHANGED composerVars
  /\ UNCHANGED <<selectedPhone, conversations, prevConversations, didFirstLoad,
                 recorderVars, srv, sideVars>>

\* ------------------------------------------------------------ composer
Chars == {" ", "a"}
Texts == UNION {[1..n -> Chars] : n \in 0..MaxTextLen}

RECURSIVE TrimStart(_)
TrimStart(t) == IF t # <<>> /\ Head(t) = " " THEN TrimStart(Tail(t)) ELSE t

RECURSIVE TrimEnd(_)
TrimEnd(t) ==
  IF t # <<>> /\ t[Len(t)] = " " THEN TrimEnd(SubSeq(t, 1, Len(t) - 1)) ELSE t

\* String.prototype.trim
Trim(t) == TrimEnd(TrimStart(t))

\* a || b on a string-valued field: "", null and undefined are falsy
OrS(a, b) == IF a \in {"", NullS, UndefS} THEN b ELSE a

\* a || b on a number-valued field: 0, null and undefined are falsy
OrN(a, b) == IF a \in {0, NullN, UndefN} THEN b ELSE a

\* a || b on a text (a sequence of characters)
OrT(a, b) == IF a = <<>> THEN b ELSE a

NumFields == {"file_size", "duration_sec"}
TextFields == {"text", "media_caption"}

\* JSON.stringify leaves out the fields whose value is undefined
Stringify(o) ==
  LET kept == {f \in DOMAIN o :
                 IF f \in NumFields THEN o[f] # UndefN
                 ELSE IF f \in TextFields THEN TRUE
                 ELSE o[f] # UndefS}
  IN [f \in kept |-> o[f]]

TextPayload(phone, txt) ==
  [phone |-> phone, direction |-> "out", msg_type |-> "text", text |-> Trim(txt)]

\* the media payload without the `|| null` defaults
MediaPayloadBare(phone, txt, att) ==
  [phone |-> phone, direction |-> "out", msg_type |-> att.msg_type,
   text |-> <<>>,
   media_id |-> att.media_id,
   media_caption |-> OrT(Trim(txt), <<>>),
   mime_type |-> att.mime_type,
   file_name |-> att.filename,
   file_size |-> IF att.file_size = NullN THEN UndefN ELSE att.file_size,
   duration_sec |-> IF att.duration_sec = NullN THEN UndefN ELSE att.duration_sec]

MediaPayload(phone, txt, att) ==
  [phone |-> phone, direction |-> "out", msg_type |-> att.msg_type,
   text |-> <<>>,
   media_id |-> att.media_id,
   media_caption |-> OrT(Trim(txt), <<>>),
   mime_type |-> OrS(att.mime_type, NullS),
   file_name |-> OrS(att.filename, NullS),
   file_size |-> OrN(att.file_size, NullN),
   duration_sec |-> OrN(att.duration_sec, NullN)]

\* the product payload that falls back to the composer text
ProductPayloadFallback(phone, txt, att) ==
  [phone |-> phone, direction |-> "out", msg_type |-> "product",
   text |-> OrT(att.text, OrT(Trim(txt), <<>>)),
   featured_image |-> OrS(att.featured_image, NullS),
   real_image |-> OrS(att.real_image, NullS),
   permalink |-> OrS(att.permalink, NullS)]

ProductPayload(phone, txt, att) ==
  [phone |-> phone, direction |-> "out", msg_type |-> "product",
   text |-> OrT(att.text, <<>>),
   featured_image |-> OrS(att.featured_image, NullS),
   real_image |-> OrS(att.real_image, NullS),
   permalink |-> OrS(att.permalink, NullS)]

\* the body sendMessage posts to /api/messages/ingest
BuildPayload(phone, txt, att) ==
  Stringify(IF att.kind = "media" THEN MediaPayload(phone, txt, att)
            ELSE IF att.kind = "product" THEN ProductPayload(phone, txt, att)
            ELSE TextPayload(phone, txt))

\* onChange of the composer input (disabled without a chat or while recording)
TypeText(t) ==
  /\ selectedPhone # NoPhone /\ ~isRecording
  /\ t # text
  /\ text' = t
  /\ stagedFor' = [stagedFor EXCEPT !.text = selectedPhone]
  /\ last' = Idle
  /\ notice' = ""
  /\ UNCHANGED <<inboxVars, attachment, showAttachMenu, filePickKind, picking,
                 recorderVars, net, srv, pollVars, panelVars, crmVars, actionVars>>

\* the paperclip button
ToggleAttachMenu ==
  /\ selectedPhone # NoPhone
  /\ showAttachMenu' = ~showAttachMenu
  /\ last' = Idle
  /\ notice' = ""
  /\ UNCHANGED <<inboxVars, text, attachment, filePickKind, picking,
                 recorderVars, net, srv, sideVars>>

\* the kinds of the attach menu (video and audio behave as these two)
FileKinds == {"image", "document"}

\* an entry of the attach menu: the kind is kept and the file dialog opens
PickKind(k) ==
  /\ showAttachMenu
  /\ filePickKind' = k
  /\ picking' = TRUE
  /\ showAttachMenu' = FALSE
  /\ last' = Idle
  /\ notice' = ""
  /\ UNCHANGED <<inboxVars, text, attachment, recorderVars, net, srv, sideVars>>

FileSizes == {0, 7}

\* onChange of the hidden file input: the upload of the chosen file starts
FileChosen(size) ==
  /\ picking /\ selectedPhone # NoPhone
  /\ picking' = FALSE
  /\ net' = net \cup {[kind |-> "upload", msg_type |-> filePickKind, size |-> size]}
  /\ last' = Idle
  /\ notice' = ""
  /\ UNCHANGED <<inboxVars, text, attachment, showAttachMenu, filePickKind,
                 recorderVars, srv, sideVars>>

\* what /api/media/upload answers with a 2xx status
UploadData == {[media_id |-> "m1", filename |-> "stored.bin", mime_type |-> "app/x"],
               [media_id |-> "m1", filename |-> UndefS, mime_type |-> UndefS]}

\* the attachment the file input's onChange stages from the upload's answer
FileAttachment(k, d, size) ==
  [kind |-> "media", msg_type |-> k, media_id |-> d.media_id,
   filename |-> d.filename, mime_type |-> d.mime_type,
   file_size |-> OrN(size, NullN), duration_sec |-> NullN]

\* the continuation of the file input's onChange after the upload
UploadDone(r) ==
  /\ r \in net /\ r.kind = "upload"
  /\ net' = net \ {r}
  /\ \/ \E d \in UploadData :
          /\ attachment' = FileAttachment(r.msg_type, d, r.size)
          /\ stagedFor' = [stagedFor EXCEPT !.attachment = selectedPhone]
          /\ notice' = ""
          /\ last' = [op |-> "upload", staged |-> TRUE]
     \/ /\ attachment' = attachment
        /\ notice' = "Error subiendo el archivo"
        /\ last' = [op |-> "upload", staged |-> FALSE]
        /\ UNCHANGED stagedFor
  /\ UNCHANGED <<inboxVars, text, showAttachMenu, filePickKind, picking,
                 recorderVars, srv, pollVars, panelVars, crmVars, actionVars>>

\* the cross of the attachment preview
RemoveAttachment ==
  /\ attachment # NoAttachment
  /\ attachment' = NoAttachment
  /\ last' = Idle
  /\ notice' = ""
  /\ UNCHANGED <<inboxVars, text, showAttachMenu, filePickKind, picking,
                 recorderVars, net, srv, sideVars>>

\* sendMessage up to its `await fetch(ingest)`
SendMessage ==
  /\ selectedPhone # NoPhone
  /\ Trim(text) # <<>> \/ attachment # NoAttachment
  /\ LET payload == BuildPayload(selectedPhone, text, attachment)
     IN /\ net' = net \cup {[kind |-> "ingest", payload |-> payload, sel |-> selectedPhone, q |-> q]}
        /\ last' = [op |-> "sendMessage", stage |-> "issued", text |-> text,
                    attachment |-> attachment, payload |-> payload,
                    again |-> \E r \in net : r.kind = "ingest" /\ r.payload = payload]
  /\ notice' = ""
  /\ UNCHANGED <<inboxVars, composerVars, recorderVars, srv, sideVars>>

\* the composer when the catch branch also reset it
AfterSendFailureCleared(txt, att, menu) == <<<<>>, NoAttachment, FALSE>>

\* the composer after the catch branch of sendMessage: nothing is reset
AfterSendFailure(txt, att, menu) == <<txt, att, menu>>

\* sendMessage after `await fetch(ingest)`: r.ok, or the catch branch
IngestDone(r) ==
  /\ r \in net /\ r.kind = "ingest"
  /\ \/ /\ net' = (net \ {r}) \cup {MsgsReq(r.sel, "send", r.sel, r.q)}
        /\ notice' = ""
        /\ last' = [op |-> "sendMessage", stage |-> "accepted", phone |-> r.sel]
        /\ UNCHANGED composerVars
     \/ /\ net' = net \ {r}
        /\ notice' = "Error enviando mensaje"
        /\ text' = AfterSendFailure(text, attachment, showAttachMenu)[1]
        /\ attachment' = AfterSendFailure(text, attachment, showAttachMenu)[2]
        /\ showAttachMenu' = AfterSendFailure(text, attachment, showAttachMenu)[3]
        /\ last' = [op |-> "sendMessage", stage |-> "failed", text |-> text,
                    attachment |-> attachment, menu |-> showAttachMenu]
        /\ UNCHANGED <<filePickKind, picking>>
  /\ UNCHANGED <<inboxVars, recorderVars, srv, sideVars>>

\* ------------------------------------------------------------ recorder
\* the staged attachment when startRecording leaves it alone
KeptOnStart(att) == att

\* setAttachment(null) at the top of startRecording
ClearedOnStart(att) == NoAttachment

\* the microphone button while not recording: startRecording up to
\* `await getUserMedia`; the handler closed over this render's recordSeconds
StartRecording ==
  /\ ~isRecording
  /\ selectedPhone # NoPhone
  /\ nextSession < MaxSessions
  /\ nextSession' = nextSession + 1
  /\ attachment' = ClearedOnStart(attachment)
  /\ net' = net \cup {[kind |-> "mic", id |-> nextSession + 1, rs |-> recordSeconds]}
  /\ last' = [op |-> "startRecording", had |-> attachment]
  /\ notice' = ""
  /\ UNCHANGED <<inboxVars, text, showAttachMenu, filePickKind, picking,
                 isRecording, recordSeconds, recorderRef, recTimerRef, sessions, srv, sideVars>>

\* getUserMedia resolves: the recorder starts and the one-second interval runs
MicGranted(r) ==
  /\ r \in net /\ r.kind = "mic"
  /\ net' = net \ {r}
  /\ sessions' = sessions \cup {[id |-> r.id, stream |-> "open", rec |-> "recording",
                                 timer |-> "running", rs |-> r.rs, ticks |-> 0]}
  /\ recorderRef' = r.id
  /\ recTimerRef' = r.id
  /\ isRecording' = TRUE
  /\ recordSeconds' = 0
  /\ last' = [op |-> "micGranted", id |-> r.id]
  /\ notice' = ""
  /\ UNCHANGED <<inboxVars, composerVars, nextSession, srv, sideVars>>

\* getUserMedia rejects: the catch branch of startRecording
MicDenied(r) ==
  /\ r \in net /\ r.kind = "mic"
  /\ net' = net \ {r}
  /\ notice' = "No se pudo acceder al microfono. Revisa permisos del navegador."
  /\ last' = [op |-> "micDenied", id |-> r.id]
  /\ UNCHANGED <<inboxVars, composerVars, recorderVars, srv, sideVars>>

\* the interval callback of session x: setRecordSeconds(s => s + 1)
Tick(x) ==
  /\ x \in sessions /\ x.timer = "running"
  /\ recordSeconds < MaxSeconds /\ x.ticks < MaxSeconds
  /\ recordSeconds' = recordSeconds + 1
  /\ sessions' = (sessions \ {x}) \cup {[x EXCEPT !.ticks = @ + 1]}
  /\ last' = Idle
  /\ notice' = ""
  /\ UNCHANGED <<inboxVars, composerVars, isRecording, recorderRef, recTimerRef,
                 nextSession, net, srv, sideVars>>

\* the microphone button while recording: stopRecording
StopRecording ==
  /\ isRecording
  /\ isRecording' = FALSE
  /\ recTimerRef' = NoneId
  /\ recorderRef' = NoneId
  /\ sessions' =
       {[x EXCEPT
           !.timer = IF x.id = recTimerRef THEN "cleared" ELSE @,
           !.rec = IF x.id = recorderRef /\ @ = "recording" THEN "stopped" ELSE @]
        : x \in sessions}
  /\ last' = Idle
  /\ notice' = ""
  /\ UNCHANGED <<inboxVars, composerVars, recordSeconds, nextSession, net, srv, sideVars>>

\* a session whose stream is released, whose recorder fired onstop and whose
\* interval is cleared has nothing left that can act
Finished(x) == x.stream = "closed" /\ x.rec = "done" /\ x.timer = "cleared"

\* mr.onstop up to `await fetch(upload)`: the tracks stop, the blob is posted
OnStop(x) ==
  /\ x \in sessions /\ x.rec = "stopped"
  /\ sessions' = {y \in (sessions \ {x}) \cup {[x EXCEPT !.rec = "done", !.stream = "closed"]} :
                   ~Finished(y)}
  /\ \E size \in FileSizes :
       net' = net \cup {[kind |-> "audioUpload", id |-> x.id, rs |-> x.rs,
                         ticks |-> x.ticks, size |-> size]}
  /\ last' = [op |-> "onstop", id |-> x.id]
  /\ notice' = ""
  /\ UNCHANGED <<inboxVars, composerVars, isRecording, recordSeconds, recorderRef,
                 recTimerRef, nextSession, srv, sideVars>>

\* the attachment mr.onstop stages from the upload's answer
AudioAttachment(d, rs, size) ==
  [kind |-> "media", msg_type |-> "audio", media_id |-> d.media_id,
   filename |-> OrS(d.filename, "audio_now.webm"),
   mime_type |-> OrS(d.mime_type, "audio/webm"),
   file_size |-> OrN(size, NullN),
   duration_sec |-> OrN(rs, NullN)]

\* mr.onstop after `await fetch(upload)`
AudioUploadDone(r) ==
  /\ r \in net /\ r.kind = "audioUpload"
  /\ net' = net \ {r}
  /\ \/ \E d \in UploadData :
          /\ attachment' = AudioAttachment(d, r.rs, r.size)
          /\ stagedFor' = [stagedFor EXCEPT !.attachment = selectedPhone]
          /\ notice' = ""
          /\ last' = [op |-> "audioUpload", staged |-> TRUE, id |-> r.id, ticks |-> r.ticks]
     \/ /\ attachment' = attachment
        /\ notice' = "Error subiendo el audio grabado"
        /\ last' = [op |-> "audioUpload", staged |-> FALSE, id |-> r.id, ticks |-> r.ticks]
        /\ UNCHANGED stagedFor
  /\ UNCHANGED <<inboxVars, text, showAttachMenu, filePickKind, picking,
                 recorderVars, srv, pollVars, panelVars, crmVars, actionVars>>

\* ------------------------------------------------------------- AIPanel
\* the model lists, the provider and model selects and the numeric settings;
\* the system prompt and the knowledge base play no part here
Providers == {"google", "groq"}

\* the non-empty lists the model endpoints can answer with; "" stands for an
\* entry normalizeModels drops (an object without id and raw)
ModelLists == {<<"gemma-3-4b-it", "m2">>, <<"", "m1">>, <<"">>}

\* normalizeModels(list): the values of the entries that have one
NormalizeModels(list) == SelectSeq(list, LAMBDA m : m # "")

\* providerModels / fallbackProviderModels of a render
ProviderModels(p, cache) == NormalizeModels(cache[p])

\* the model auto-select effect keeps the model it finds
KeepModel(model, options) == model

\* the body of a model auto-select effect: the first option when the model
\* is empty or not among the options
FirstIfMissing(model, options) ==
  IF options = <<>> THEN model
  ELSE IF model = "" \/ ~\E i \in 1..Len(options) : options[i] = model
       THEN options[1]
       ELSE model

\* the draft after the auto-select effects that re-run (an effect re-runs
\* when its option list was recomputed)
AutoSelect(d, cache, runModel, runFallback) ==
  [d EXCEPT
     !.model = IF runModel
               THEN FirstIfMissing(@, ProviderModels(d.provider, cache)) ELSE @,
     !.fallback_model = IF runFallback
                        THEN FirstIfMissing(@, ProviderModels(d.fallback_provider, cache))
                        ELSE @]

\* loadModels(p) called from a render whose modelsByProvider is cache: the
\* requests it issues (none when that render holds a non-empty list for p)
LoadModelsCall(p, cache) ==
  IF cache[p] # <<>> THEN {} ELSE {[kind |-> "modelsLive", provider |-> p]}

\* the provider select: the effect on draft.provider calls the new render's loadModels
SetProvider(p) ==
  /\ p # draft.provider
  /\ draft' = AutoSelect([draft EXCEPT !.provider = p], modelsByProvider, TRUE, FALSE)
  /\ LET reqs == LoadModelsCall(p, modelsByProvider)
     IN /\ net' = net \cup reqs
        /\ modelsLoading' = IF reqs = {} THEN modelsLoading ELSE TRUE
        /\ modelsError' = IF reqs = {} THEN modelsError ELSE ""
  /\ last' = Idle
  /\ notice' = ""
  /\ UNCHANGED <<inboxVars, composerVars, recorderVars, srv, pollVars, crmVars, actionVars, stagedFor,
                 modelsByProvider, settings, aiStatus, aiSaving, aiLoading>>

\* the fallback provider select
SetFallbackProvider(p) ==
  /\ p # draft.fallback_provider
  /\ draft' = AutoSelect([draft EXCEPT !.fallback_provider = p], modelsByProvider,
                         FALSE, TRUE)
  /\ LET reqs == LoadModelsCall(p, modelsByProvider)
     IN /\ net' = net \cup reqs
        /\ modelsLoading' = IF reqs = {} THEN modelsLoading ELSE TRUE
        /\ modelsError' = IF reqs = {} THEN modelsError ELSE ""
  /\ last' = Idle
  /\ notice' = ""
  /\ UNCHANGED <<inboxVars, composerVars, recorderVars, srv, pollVars, crmVars, actionVars, stagedFor,
                 modelsByProvider, settings, aiStatus, aiSaving, aiLoading>>

\* the model select (f is model) and the fallback model select
SetModel(f, m) ==
  /\ \E i \in 1..Len(ProviderModels(draft[IF f = "model" THEN "provider"
                                          ELSE "fallback_provider"], modelsByProvider)) :
        ProviderModels(draft[IF f = "model" THEN "provider" ELSE "fallback_provider"],
                       modelsByProvider)[i] = m
  /\ m # draft[f]
  /\ draft' = [draft EXCEPT ![f] = m]
  /\ last' = Idle
  /\ notice' = ""
  /\ UNCHANGED <<inboxVars, composerVars, recorderVars, net, srv, pollVars, crmVars,
                 actionVars, stagedFor, modelsByProvider, modelsLoading, modelsError, settings,
                 aiStatus, aiSaving, aiLoading>>

\* the refresh button: forceReloadModels(draft.provider); the loadModels it
\* awaits is the one of the render that handled the click
ForceReloadModels ==
  /\ LET p == draft.provider
         reqs == LoadModelsCall(p, modelsByProvider)
     IN /\ modelsByProvider' = [modelsByProvider EXCEPT ![p] = <<>>]
        /\ net' = net \cup reqs
        /\ modelsLoading' = IF reqs = {} THEN modelsLoading ELSE TRUE
        /\ modelsError' = IF reqs = {} THEN modelsError ELSE ""
        /\ last' = [op |-> "forceReloadModels", provider |-> p,
                    had |-> modelsByProvider[p], issued |-> reqs # {}]
  /\ draft' = AutoSelect(draft, modelsByProvider', TRUE, TRUE)
  /\ notice' = ""
  /\ UNCHANGED <<inboxVars, composerVars, recorderVars, srv, pollVars, crmVars, actionVars, stagedFor,
                 settings, aiStatus, aiSaving, aiLoading>>

\* loadModels after the live request: a non-empty list with a 2xx status is
\* stored, anything else goes on to the whitelist request
ModelsLiveDone(r) ==
  /\ r \in net /\ r.kind = "modelsLive"
  /\ \/ \E list \in ModelLists :
          /\ modelsByProvider' = [modelsByProvider EXCEPT ![r.provider] = list]
          /\ net' = net \ {r}
          /\ modelsLoading' = FALSE
          /\ last' = [op |-> "loadModels", provider |-> r.provider, list |-> list]
          /\ draft' = AutoSelect(draft, modelsByProvider', TRUE, TRUE)
     \/ /\ net' = (net \ {r}) \cup {[kind |-> "modelsFallback", provider |-> r.provider]}
        /\ last' = Idle
        /\ UNCHANGED <<modelsByProvider, modelsLoading, draft>>
  /\ notice' = ""
  /\ UNCHANGED <<inboxVars, composerVars, recorderVars, srv, pollVars, crmVars, actionVars, stagedFor,
                 modelsError, settings, aiStatus, aiSaving, aiLoading>>

\* loadModels after the whitelist request
ModelsFallbackDone(r) ==
  /\ r \in net /\ r.kind = "modelsFallback"
  /\ net' = net \ {r}
  /\ modelsLoading' = FALSE
  /\ \/ \E list \in ModelLists :
          /\ modelsByProvider' = [modelsByProvider EXCEPT ![r.provider] = list]
          /\ last' = [op |-> "loadModels", provider |-> r.provider, list |-> list]
          /\ draft' = AutoSelect(draft, modelsByProvider', TRUE, TRUE)
          /\ UNCHANGED modelsError
     \/ /\ modelsError' \in {"No hay modelos disponibles", "Error cargando modelos"}
        /\ last' = Idle
        /\ UNCHANGED <<modelsByProvider, draft>>
  /\ notice' = ""
  /\ UNCHANGED <<inboxVars, composerVars, recorderVars, srv, pollVars, crmVars, actionVars, stagedFor,
                 settings, aiStatus, aiSaving, aiLoading>>

\* the numeric settings; temperature is counted in tenths (7 is 0.7)
NumericFields == {"max_tokens", "temperature", "timeout_sec", "max_retries",
                  "reply_chunk_chars", "reply_delay_ms", "typing_delay_ms"}

\* the bounds and the fallback clampNum is called with for each field
Range ==
  [max_tokens        |-> [min |-> 32,  max |-> 8192,  def |-> 512],
   temperature       |-> [min |-> 0,   max |-> 20,    def |-> 7],
   timeout_sec       |-> [min |-> 5,   max |-> 120,   def |-> 25],
   max_retries       |-> [min |-> 0,   max |-> 3,     def |-> 1],
   reply_chunk_chars |-> [min |-> 120, max |-> 2000,  def |-> 480],
   reply_delay_ms    |-> [min |-> 0,   max |-> 15000, def |-> 900],
   typing_delay_ms   |-> [min |-> 0,   max |-> 15000, def |-> 450]]

\* the fields coalesceSettings passes through clampNum
ClampedOnLoad == {"reply_chunk_chars", "reply_delay_ms", "typing_delay_ms"}

NaN == -999999          \* the number NaN
NonNumeric == -999998   \* a JSON value Number() cannot convert (a word)

\* Number(v)
ToNumber(v) == IF v \in {NonNumeric, UndefN, NaN} THEN NaN ELSE IF v = NullN THEN 0 ELSE v

\* v ?? d
Nullish(v, d) == IF v \in {NullN, UndefN} THEN d ELSE v

\* clampNum without the upper bound
ClampNumLow(v, min, max, fallback) ==
  LET n == ToNumber(v)
  IN IF n = NaN THEN fallback ELSE IF n < min THEN min ELSE n

ClampNum(v, min, max, fallback) ==
  LET n == ToNumber(v)
      low == IF max < n THEN max ELSE n
  IN IF n = NaN THEN fallback ELSE IF min > low THEN min ELSE low

\* a numeric field of coalesceSettings(data): Number(v ?? default), and
\* clampNum(v ?? default, min, max, default) for the three fields added last
CoalesceNumeric(f, v) ==
  IF f \in ClampedOnLoad
  THEN ClampNum(Nullish(v, Range[f].def), Range[f].min, Range[f].max, Range[f].def)
  ELSE ToNumber(Nullish(v, Range[f].def))

\* the provider and model fields of the settings, with the values
\* useState and coalesceSettings fall back to
TextSettings == {"provider", "model", "fallback_provider", "fallback_model"}
TextDefaults ==
  [provider |-> "google", model |-> "gemma-3-4b-it",
   fallback_provider |-> "groq", fallback_model |-> "llama-3.1-8b-instant"]

\* coalesceSettings(data)
CoalesceSettings(data) ==
  [f \in NumericFields \cup TextSettings |->
     IF f \in TextSettings THEN OrS(data[f], TextDefaults[f])
     ELSE CoalesceNumeric(f, data[f])]

\* the numeric fields of the payload of saveSettings
SavePayload(d) ==
  [f \in DOMAIN d |->
     IF f \in NumericFields
     THEN ClampNum(d[f], Range[f].min, Range[f].max, Range[f].def)
     ELSE d[f]]

\* useState of draft
DraftDefaults ==
  [f \in NumericFields \cup TextSettings |->
     IF f \in TextSettings THEN TextDefaults[f] ELSE Range[f].def]

NoSettings == [provider |-> NullS]

\* what the user types into a numeric input: a number below or above the range
TypedValues(f) == {Range[f].min - 100, Range[f].max + 30}

\* what a settings response holds for a field
SentValues(f) == TypedValues(f) \cup {UndefN, NonNumeric}

\* the settings objects the server answers with: one field off the
\* defaults, or all fields off in the same way
SentSettings ==
  UNION {{[DraftDefaults EXCEPT ![f] = v] : v \in SentValues(f)} : f \in NumericFields}
  \cup {[f \in NumericFields \cup TextSettings |->
           IF f = "provider" THEN pr ELSE IF f \in TextSettings THEN UndefS ELSE v] :
        pr \in {"groq", UndefS}, v \in {UndefN, NonNumeric}}

\* the fields of d that differ from the defaults
Edited(d) == {f \in NumericFields : d[f] # DraftDefaults[f]}

\* onChange of a numeric input
EditDraft(f, v) ==
  /\ v # draft[f]
  /\ draft' = [draft EXCEPT ![f] = v]
  /\ Cardinality(Edited(draft')) <= MaxEdited
  /\ last' = Idle
  /\ notice' = ""
  /\ UNCHANGED <<inboxVars, composerVars, recorderVars, net, srv, pollVars, crmVars,
                 actionVars, stagedFor, modelsByProvider, modelsLoading, modelsError, settings,
                 aiStatus, aiSaving, aiLoading>>

\* the reload button (and the mount effect): loadSettings up to its fetch
LoadSettings ==
  /\ ~aiSaving
  /\ aiLoading' = TRUE
  /\ aiStatus' = ""
  /\ net' = net \cup {[kind |-> "settingsGet"]}
  /\ last' = Idle
  /\ notice' = ""
  /\ UNCHANGED <<inboxVars, composerVars, recorderVars, srv, pollVars, crmVars, actionVars, stagedFor,
                 modelsByProvider, modelsLoading, modelsError, draft, settings, aiSaving>>

\* the effect on draft.provider after setDraft(d): the new render's loadModels
ProviderEffect(d) ==
  (IF d.provider # draft.provider
   THEN LoadModelsCall(d.provider, modelsByProvider) ELSE {})
  \cup (IF d.fallback_provider # draft.fallback_provider
        THEN LoadModelsCall(d.fallback_provider, modelsByProvider) ELSE {})

\* setDraft(d) of a settings response, then the auto-select effects of the
\* provider that changed
DraftApplied(d) ==
  AutoSelect(d, modelsByProvider, d.provider # draft.provider,
             d.fallback_provider # draft.fallback_provider)

\* loadSettings after its fetch: setSettings(data), setDraft(coalesceSettings(data)),
\* or the catch branch
LoadSettingsDone(r) ==
  /\ r \in net /\ r.kind = "settingsGet"
  /\ aiLoading' = FALSE
  /\ \/ \E data \in SentSettings :
          LET d == CoalesceSettings(data)
              reqs == ProviderEffect(d)
          IN /\ settings' = data
             /\ draft' = DraftApplied(d)
             /\ net' = (net \ {r}) \cup reqs
             /\ modelsLoading' = IF reqs = {} THEN modelsLoading ELSE TRUE
             /\ modelsError' = IF reqs = {} THEN modelsError ELSE ""
             /\ last' = [op |-> "loadSettings", applied |-> TRUE, data |-> data]
             /\ UNCHANGED aiStatus
     \/ /\ aiStatus' = "Error"
        /\ net' = net \ {r}
        /\ last' = [op |-> "loadSettings", applied |-> FALSE]
        /\ UNCHANGED <<settings, draft, modelsLoading, modelsError>>
  /\ notice' = ""
  /\ UNCHANGED <<inboxVars, composerVars, recorderVars, srv, pollVars, crmVars, actionVars, stagedFor,
                 modelsByProvider, aiSaving>>

\* the save button: saveSettings up to its fetch
SaveSettings ==
  /\ ~aiSaving
  /\ aiSaving' = TRUE
  /\ aiStatus' = ""
  /\ net' = net \cup {[kind |-> "settingsPut"]}
  /\ last' = [op |-> "saveSettings", stage |-> "issued", draft |-> draft,
              payload |-> SavePayload(draft)]
  /\ notice' = ""
  /\ UNCHANGED <<inboxVars, composerVars, recorderVars, srv, pollVars, crmVars, actionVars, stagedFor,
                 modelsByProvider, modelsLoading, modelsError, draft, settings, aiLoading>>

\* saveSettings after its fetch
SaveSettingsDone(r) ==
  /\ r \in net /\ r.kind = "settingsPut"
  /\ aiSaving' = FALSE
  /\ \/ \E data \in SentSettings :
          LET d == CoalesceSettings(data)
              reqs == ProviderEffect(d)
          IN /\ settings' = data
             /\ draft' = DraftApplied(d)
             /\ net' = (net \ {r}) \cup reqs
             /\ modelsLoading' = IF reqs = {} THEN modelsLoading ELSE TRUE
             /\ modelsError' = IF reqs = {} THEN modelsError ELSE ""
             /\ aiStatus' = "Guardado"
             /\ last' = [op |-> "saveSettings", stage |-> "done", applied |-> TRUE,
                         data |-> data]
     \/ /\ aiStatus' = "Error al guardar"
        /\ net' = net \ {r}
        /\ last' = [op |-> "saveSettings", stage |-> "done", applied |-> FALSE]
        /\ UNCHANGED <<settings, draft, modelsLoading, modelsError>>
  /\ notice' = ""
  /\ UNCHANGED <<inboxVars, composerVars, recorderVars, srv, pollVars, crmVars, actionVars, stagedFor,
                 modelsByProvider, aiLoading>>

\* setTimeout(() => setStatus(""), 2500)
ClearStatus ==
  /\ aiStatus # ""
  /\ aiStatus' = ""
  /\ last' = Idle
  /\ notice' = ""
  /\ UNCHANGED <<inboxVars, composerVars, recorderVars, net, srv, pollVars, crmVars,
                 actionVars, stagedFor, modelsByProvider, modelsLoading, modelsError, draft, settings,
                 aiSaving, aiLoading>>

\* ----------------------------------------------------- CustomerCardCRM
\* first_name and notes stand for the seven text fields of the form
CrmFields == {"first_name", "notes"}
CrmValues == {"", "x"}

\* what GET /api/crm/{phone} answers
CrmRecords == {[first_name |-> "Ana", notes |-> UndefS], [detail |-> "error"]}

\* data.f || ""
CrmField(data, f) == IF f \in DOMAIN data THEN OrS(data[f], "") ELSE ""

\* load() after its fetch; a body that parses is applied whatever the status
CrmLoadDone(r) ==
  /\ r \in net /\ r.kind = "crmLoad"
  /\ net' = net \ {r}
  /\ \/ \E data \in CrmRecords :
          /\ crmForm' = [f \in CrmFields |-> CrmField(data, f)]
          /\ crmDirty' = FALSE
          /\ crmStatus' = ""
          /\ crmOwner' = [f \in CrmFields |-> r.phone]
          /\ crmSynced' = [crmSynced EXCEPT !.loaded = crmForm']
          /\ last' = [op |-> "crmLoad", phone |-> r.phone, applied |-> TRUE]
     \/ /\ UNCHANGED <<crmForm, crmDirty, crmStatus, crmOwner, crmSynced>>
        /\ last' = [op |-> "crmLoad", phone |-> r.phone, applied |-> FALSE]
  /\ notice' = ""
  /\ UNCHANGED <<inboxVars, composerVars, recorderVars, srv, pollVars, panelVars,
                 actionVars, stagedFor, crmSaving>>

\* handleChange(field, value)
HandleChange(f, v) ==
  /\ selectedPhone # NoPhone
  /\ v # crmForm[f]
  /\ crmForm' = [crmForm EXCEPT ![f] = v]
  /\ crmDirty' = TRUE
  /\ crmOwner' = [crmOwner EXCEPT ![f] = selectedPhone]
  /\ last' = Idle
  /\ notice' = ""
  /\ UNCHANGED <<inboxVars, composerVars, recorderVars, net, srv, pollVars, panelVars,
                 actionVars, stagedFor, crmSaving, crmStatus, crmSynced>>

\* the save button (enabled while dirty and not saving): save() up to its fetch
CrmSave ==
  /\ selectedPhone # NoPhone
  /\ crmDirty /\ ~crmSaving
  /\ crmSaving' = TRUE
  /\ crmStatus' = ""
  /\ net' = net \cup {[kind |-> "crmSave", phone |-> selectedPhone, form |-> crmForm]}
  /\ last' = [op |-> "crmSave", stage |-> "issued", phone |-> selectedPhone,
              owners |-> crmOwner]
  /\ notice' = ""
  /\ UNCHANGED <<inboxVars, composerVars, recorderVars, srv, pollVars, panelVars,
                 actionVars, stagedFor, crmForm, crmDirty, crmOwner, crmSynced>>

\* the dirty flag when an answered request counts as saved whatever its status
CrmFailedClean(d) == FALSE

\* the dirty flag after the catch branch of save(): setDirty is not called
CrmFailed(d) == d

\* save() after its fetch: r.ok, or the catch branch; then the finally block
CrmSaveDone(r) ==
  /\ r \in net /\ r.kind = "crmSave"
  /\ net' = net \ {r}
  /\ crmSaving' = FALSE
  /\ \/ /\ crmDirty' = FALSE
        /\ crmStatus' = "Guardado"
        /\ crmSynced' = [crmSynced EXCEPT !.saved = r.form]
        /\ last' = [op |-> "crmSave", stage |-> "done", ok |-> TRUE,
                    form |-> crmForm, dirty |-> crmDirty]
     \/ /\ crmDirty' = CrmFailed(crmDirty)
        /\ crmStatus' = "Error al guardar"
        /\ UNCHANGED crmSynced
        /\ last' = [op |-> "crmSave", stage |-> "done", ok |-> FALSE,
                    form |-> crmForm, dirty |-> crmDirty]
  /\ notice' = ""
  /\ UNCHANGED <<inboxVars, composerVars, recorderVars, srv, pollVars, panelVars,
                 actionVars, stagedFor, crmForm, crmOwner>>

\* setTimeout(() => setStatus(""), 2500) of save()
CrmClearStatus ==
  /\ crmStatus # ""
  /\ crmStatus' = ""
  /\ last' = Idle
  /\ notice' = ""
  /\ UNCHANGED <<inboxVars, composerVars, recorderVars, net, srv, pollVars, panelVars,
                 actionVars, stagedFor, crmForm, crmDirty, crmSaving, crmOwner, crmSynced>>

\* ------------------------------------------------------ specifications
\* the composer as useState leaves it
ComposerIdle ==
  /\ text = <<>>
  /\ attachment = NoAttachment
  /\ showAttachMenu = FALSE
  /\ filePickKind = "image"
  /\ picking = FALSE

\* the recorder as useState / useRef leave it
RecorderIdle ==
  /\ isRecording = FALSE
  /\ recordSeconds = 0
  /\ recorderRef = NoneId
  /\ recTimerRef = NoneId
  /\ sessions = {}
  /\ nextSession = 0

\* ------------------------------------------------ product modal, takeover
ProductIds == {1, 2}
ProdSearches == {"", "a"}

\* GET /api/wc/products?q=search: the ids of the matching products
ServerProducts(search) == IF search = "" THEN <<1, 2>> ELSE <<1>>

\* loadWCProducts(search) up to its `await fetch`
LoadWCProducts(search) ==
  /\ prodLoading' = TRUE
  /\ prodError' = ""
  /\ net' = net \cup {[kind |-> "wcproducts", search |-> search]}

\* "Producto (Catalogo)" of the attach menu
OpenProductModal ==
  /\ selectedPhone # NoPhone /\ showAttachMenu
  /\ showProductModal' = TRUE
  /\ showAttachMenu' = FALSE
  /\ LoadWCProducts(prodQ)
  /\ last' = Idle
  /\ notice' = ""
  /\ UNCHANGED <<inboxVars, text, attachment, filePickKind, picking, recorderVars, srv,
                 pollVars, panelVars, crmVars, prodQ, products, sendingProductId, escaped, stagedFor>>

\* the search box of the modal
TypeProdQ(v) ==
  /\ showProductModal /\ v # prodQ
  /\ prodQ' = v
  /\ LoadWCProducts(v)
  /\ last' = Idle
  /\ notice' = ""
  /\ UNCHANGED <<inboxVars, composerVars, recorderVars, srv, pollVars, panelVars, crmVars,
                 showProductModal, products, sendingProductId, escaped, stagedFor>>

\* the continuation of loadWCProducts: the catalogue, or the catch block
LoadWCProductsDone(r) ==
  /\ r \in net /\ r.kind = "wcproducts"
  /\ net' = net \ {r}
  /\ \E failed \in BOOLEAN :
       /\ products' = IF failed THEN <<>> ELSE ServerProducts(r.search)
       /\ prodError' = IF failed THEN "No se pudo cargar el catalogo (WooCommerce)."
                       ELSE prodError
       /\ last' = [op |-> "loadWCProducts", caught |-> failed]
  /\ prodLoading' = FALSE
  /\ notice' = ""
  /\ UNCHANGED <<inboxVars, composerVars, recorderVars, srv, pollVars, panelVars, crmVars,
                 showProductModal, prodQ, sendingProductId, escaped, stagedFor>>

\* "Enviar" of a product card: sendWCProduct up to its `await fetch`
SendWCProduct(id) ==
  /\ selectedPhone # NoPhone
  /\ showProductModal /\ ~prodLoading /\ prodError = ""
  /\ \E i \in 1..Len(products) : products[i] = id
  /\ sendingProductId # id
  /\ sendingProductId' = id
  /\ net' = net \cup {[kind |-> "wcsend", phone |-> selectedPhone, id |-> id,
                       sel |-> selectedPhone, q |-> q]}
  /\ last' = [op |-> "sendWCProduct", stage |-> "request", id |-> id,
              inflight |-> {r.id : r \in {x \in net : x.kind = "wcsend"}}]
  /\ notice' = ""
  /\ UNCHANGED <<inboxVars, composerVars, recorderVars, srv, pollVars, panelVars, crmVars,
                 showProductModal, prodQ, products, prodLoading, prodError, escaped, stagedFor>>

\* how POST /api/wc/send-product can end: the fetch rejects, an error
\* status, a 2xx with sent false, a 2xx
SendOutcomes == {"rejected", "status", "unsent", "sent"}

\* the continuation of sendWCProduct after `await fetch`: the catch block
\* alerts, the finally block frees the button
SendWCProductDone(r) ==
  /\ r \in net /\ r.kind = "wcsend"
  /\ \E o \in SendOutcomes :
       /\ net' = (net \ {r}) \cup
                 (IF o = "sent" THEN {MsgsReq(r.phone, "product", r.sel, r.q)} ELSE {})
       /\ notice' = CASE o \in {"rejected", "status"} -> "Error enviando producto por WhatsApp"
                      [] o = "unsent" -> "Se guardo en la plataforma, pero WhatsApp NO lo envio"
                      [] OTHER -> ""
       /\ sendingProductId' = IF o = "sent" THEN sendingProductId ELSE NoProduct
       /\ last' = [op |-> "sendWCProduct", stage |-> "done", outcome |-> o,
                   caught |-> o \in {"rejected", "status"}]
  /\ UNCHANGED <<inboxVars, composerVars, recorderVars, srv, pollVars, panelVars, crmVars,
                 showProductModal, prodQ, products, prodLoading, prodError, escaped, stagedFor>>

\* the takeover button: toggleTakeover up to its `await fetch`
ToggleTakeover ==
  /\ selectedPhone # NoPhone
  /\ net' = net \cup {[kind |-> "takeover", phone |-> selectedPhone,
                       sel |-> selectedPhone, q |-> q]}
  /\ last' = Idle
  /\ notice' = ""
  /\ UNCHANGED <<inboxVars, composerVars, recorderVars, srv, sideVars>>

\* toggleTakeover awaits its fetch outside any try block: a rejected fetch
\* rejects the promise of the click handler
TakeoverRejected(r) == {"toggleTakeover"}

\* the continuation of toggleTakeover: whatever the status, the list is
\* fetched again; a rejected fetch ends the handler
TakeoverDone(r) ==
  /\ r \in net /\ r.kind = "takeover"
  /\ \E rejected \in BOOLEAN :
       /\ net' = (net \ {r}) \cup (IF rejected THEN {} ELSE {ConvReq(r.sel, r.q)})
       /\ escaped' = escaped \cup (IF rejected THEN TakeoverRejected(r) ELSE {})
       /\ last' = [op |-> "toggleTakeover", rejected |-> rejected]
  /\ notice' = ""
  /\ UNCHANGED <<inboxVars, composerVars, recorderVars, srv, pollVars, panelVars, crmVars,
                 productVars, stagedFor>>

\* AIPanel as useState leaves it
PanelIdle ==
  /\ modelsByProvider = [p \in Providers |-> <<>>]
  /\ modelsLoading = FALSE
  /\ modelsError = ""
  /\ draft = DraftDefaults
  /\ settings = NoSettings
  /\ aiStatus = ""
  /\ aiSaving = FALSE
  /\ aiLoading = TRUE

\* CustomerCardCRM as useState leaves it
CrmIdle ==
  /\ crmForm = [first_name |-> "", notes |-> ""]
  /\ crmDirty = FALSE
  /\ crmSaving = FALSE
  /\ crmStatus = ""
  /\ crmOwner = [f \in CrmFields |-> NoPhone]
  /\ crmSynced = [loaded |-> crmForm, saved |-> crmForm]

\* the parts of the console that play no part in the inbox
\* the product modal as useState leaves it, and no handler has failed
ActionsIdle ==
  /\ showProductModal = FALSE
  /\ prodQ = ""
  /\ products = <<>>
  /\ prodLoading = FALSE
  /\ prodError = ""
  /\ sendingProductId = NoProduct
  /\ escaped = {}

SideIdle == PanelIdle /\ CrmIdle /\ ActionsIdle

\* the client after the first render and its effects: the list fetch of the
\* polling effect is in flight, nothing is selected
ClientInit ==
  /\ selectedPhone = NoPhone
  /\ conversations = <<>>
  /\ messages = <<>>
  /\ prevConversations = <<>>
  /\ didFirstLoad = FALSE
  /\ ComposerIdle
  /\ RecorderIdle
  /\ net = {ConvReq(NoPhone, "")}
  /\ notice = ""
  /\ last = [op |-> "mount"]
  /\ q = ""
  /\ convTimers = {ConvTimer(NoPhone, "")}
  /\ msgTimers = {}
  /\ mounted = TRUE
  /\ SideIdle
  /\ stagedFor = [text |-> NoPhone, attachment |-> NoPhone]

Init == ClientInit /\ srv \in [Phones -> SrvVals]

\* at most MaxInflight list fetches and read marks are in flight
Capped == Cardinality({r \in net' : r.kind \in {"conv", "read"}}) <= MaxInflight

\* the conversation list: polling, selection and the backend
Next ==
  \/ \E p \in Phones : ServerUpdate(p)
  \/ PollTick /\ Capped
  \/ \E p \in Phones : SelectChat(p) /\ Capped
  \/ \E r \in net : r.kind = "conv" /\ Answer(r)
  \/ \E r \in net : LoadConversationsDone(r)
  \/ \E r \in net : MarkReadDone(r)

Spec == Init /\ [][Next]_vars

\* the client once the list is loaded, the chat of p is open and the fetches
\* of the selection have settled; the backend holds one conversation per phone
ChatOpen(p) ==
  /\ srv = [x \in Phones |-> 1]
  /\ selectedPhone = p
  /\ conversations = ServerList(srv)
  /\ messages = ServerMessages(p, srv)
  /\ prevConversations = NextMap(conversations)
  /\ didFirstLoad = TRUE
  /\ net = {}
  /\ notice = ""
  /\ last = [op |-> "mount"]
  /\ q = ""
  /\ convTimers = {ConvTimer(p, "")}
  /\ msgTimers = {MsgTimer(p)}
  /\ mounted = TRUE
  /\ SideIdle
  /\ stagedFor = [text |-> p, attachment |-> p]

InitChatOpen == (\E p \in Phones : ChatOpen(p)) /\ ComposerIdle /\ RecorderIdle

\* at most MaxPending uploads and sends are in flight
CappedComposer ==
  Cardinality({r \in net' : r.kind \in {"upload", "ingest"}
                            \/ (r.kind = "msgs" /\ r.then # "none")}) <= MaxPending

\* staging a file
NextAttach ==
  \/ ToggleAttachMenu
  \/ \E k \in FileKinds : PickKind(k)
  \/ \E size \in FileSizes : FileChosen(size) /\ CappedComposer
  \/ \E r \in net : UploadDone(r)
  \/ RemoveAttachment

\* the composer of an open chat: typing, staging a file and sending
NextSend ==
  \/ NextAttach
  \/ \E t \in Texts : TypeText(t)
  \/ SendMessage /\ CappedComposer
  \/ \E r \in net : IngestDone(r)
  \/ \E r \in net : r.kind = "msgs" /\ Answer(r)
  \/ \E r \in net : LoadMessagesDone(r)

SpecSend == InitChatOpen /\ [][NextSend]_vars

\* every attachment an upload of a chosen file can stage
StagedFiles ==
  {FileAttachment(k, d, size) : k \in FileKinds, d \in UploadData, size \in FileSizes}

\* an open chat with an idle recorder, with or without a file staged
InitRecorder ==
  /\ \E p \in Phones : ChatOpen(p)
  /\ text = <<>>
  /\ attachment \in StagedFiles \cup {NoAttachment}
  /\ showAttachMenu = FALSE
  /\ filePickKind \in FileKinds
  /\ picking = FALSE
  /\ RecorderIdle

\* the recorder of an open chat
NextRecorder ==
  \/ StartRecording
  \/ \E r \in net : MicGranted(r)
  \/ \E r \in net : MicDenied(r)
  \/ \E x \in sessions : Tick(x)
  \/ StopRecording
  \/ \E x \in sessions : OnStop(x)
  \/ \E r \in net : AudioUploadDone(r)

SpecRecorder == InitRecorder /\ [][NextRecorder]_vars

\* the attachments sendMessage can find staged: what an upload or a recording
\* stages, and a product attachment
MediaAttachments ==
  [kind : {"media"}, msg_type : FileKinds \cup {"audio"}, media_id : {"m1"},
   filename : {"stored.bin", UndefS}, mime_type : {"app/x", UndefS},
   file_size : {7, NullN}, duration_sec : {1, NullN}]

ProductAttachments ==
  [kind : {"product"}, text : {<<>>, <<"a">>, <<"a", " ">>},
   featured_image : {"img", UndefS}, real_image : {"real", UndefS},
   permalink : {"url", ""}]

\* sendMessage as a function of the selected phone, the text and the attachment
InitPayload ==
  /\ \E p \in Phones : ChatOpen(p)
  /\ text \in Texts
  /\ attachment \in MediaAttachments \cup ProductAttachments \cup {NoAttachment}
  /\ showAttachMenu = FALSE
  /\ filePickKind = "image"
  /\ picking = FALSE
  /\ RecorderIdle

SpecPayload == InitPayload /\ [][SendMessage]_vars

\* the settings tab right after AIPanel mounted: loadSettings and the
\* loadModels of the two provider effects are in flight
InitPanel ==
  /\ srv = [p \in Phones |-> 1]
  /\ selectedPhone = NoPhone
  /\ conversations = ServerList(srv)
  /\ messages = <<>>
  /\ prevConversations = NextMap(conversations)
  /\ didFirstLoad = TRUE
  /\ ComposerIdle
  /\ RecorderIdle
  /\ notice = ""
  /\ last = [op |-> "mount"]
  /\ q = ""
  /\ convTimers = {ConvTimer(NoPhone, "")}
  /\ msgTimers = {}
  /\ mounted = TRUE
  /\ CrmIdle
  /\ ActionsIdle
  /\ stagedFor = [text |-> NoPhone, attachment |-> NoPhone]
  /\ modelsByProvider = [p \in Providers |-> <<>>]
  /\ modelsLoading = TRUE
  /\ modelsError = ""
  /\ draft = DraftDefaults
  /\ settings = NoSettings
  /\ aiStatus = ""
  /\ aiSaving = FALSE
  /\ aiLoading = TRUE
  /\ net = {[kind |-> "settingsGet"]} \cup UNION {LoadModelsCall(p, modelsByProvider) : p \in Providers}

\* the model lists of the settings tab
NextModels ==
  \/ \E p \in Providers : SetProvider(p)
  \/ \E p \in Providers : SetFallbackProvider(p)
  \/ \E f \in {"model", "fallback_model"} :
       \E m \in UNION {{l[i] : i \in 1..Len(l)} : l \in ModelLists} : SetModel(f, m)
  \/ ForceReloadModels
  \/ \E r \in net : ModelsLiveDone(r)
  \/ \E r \in net : ModelsFallbackDone(r)

SpecModels == InitPanel /\ [][NextModels]_vars

\* the numeric settings of the settings tab
NextSettings ==
  \/ \E f \in NumericFields : \E v \in TypedValues(f) : EditDraft(f, v)
  \/ LoadSettings
  \/ \E r \in net : LoadSettingsDone(r)
  \/ SaveSettings
  \/ \E r \in net : SaveSettingsDone(r)
  \/ ClearStatus

SpecSettings == InitPanel /\ [][NextSettings]_vars

\* a chat has just been opened: the load of its CRM card is in flight
InitCrm ==
  /\ \E p \in Phones :
       /\ srv = [x \in Phones |-> 1]
       /\ selectedPhone = p
       /\ conversations = ServerList(srv)
       /\ messages = ServerMessages(p, srv)
       /\ prevConversations = NextMap(conversations)
       /\ convTimers = {ConvTimer(p, "")}
       /\ msgTimers = {MsgTimer(p)}
       /\ net = {[kind |-> "crmLoad", phone |-> p]}
  /\ didFirstLoad = TRUE
  /\ notice = ""
  /\ last = [op |-> "mount"]
  /\ q = ""
  /\ mounted = TRUE
  /\ SideIdle
  /\ stagedFor = [text |-> NoPhone, attachment |-> NoPhone]
  /\ ComposerIdle
  /\ RecorderIdle

\* the CRM card while chats are opened; the fetches of the inbox stay
\* pending, they play no part in the card
NextCrm ==
  \/ \E p \in Phones \ {selectedPhone} : SelectChatCrm(p)
  \/ \E r \in net : CrmLoadDone(r)
  \/ \E f \in CrmFields : \E v \in CrmValues : HandleChange(f, v)
  \/ CrmSave
  \/ \E r \in net : CrmSaveDone(r)
  \/ CrmClearStatus

SpecCrm == InitCrm /\ [][NextCrm]_vars

\* the inbox right after mount, with a conversation for every phone
InitInbox == ClientInit /\ srv = [x \in Phones |-> 1]

\* at most MaxInflight list fetches and read marks and MaxPending message
\* fetches are in flight
CappedInbox ==
  /\ Capped
  /\ Cardinality({r \in net' : r.kind = "msgs"}) <= MaxPending

\* the inbox with its search box, both polling effects and the backend
NextInbox ==
  \/ PollTick /\ CappedInbox
  \/ MsgPollTick /\ CappedInbox
  \/ \E p \in Phones : SelectChat(p) /\ CappedInbox
  \/ \E qq \in Searches : SetSearch(qq) /\ CappedInbox
  \/ Unmount
  \/ \E r \in net : Answer(r)
  \/ \E r \in net : LoadConversationsDone(r)
  \/ \E r \in net : LoadMessagesDone(r)
  \/ \E r \in net : MarkReadDone(r)

SpecInbox == InitInbox /\ [][NextInbox]_vars

\* the inbox while App stays mounted
NextLive ==
  \/ \E p \in Phones : ServerUpdate(p)
  \/ PollTick /\ CappedInbox
  \/ MsgPollTick /\ CappedInbox
  \/ \E p \in Phones : SelectChat(p) /\ CappedInbox
  \/ \E qq \in Searches : SetSearch(qq) /\ CappedInbox
  \/ \E r \in net : Answer(r)
  \/ \E r \in net : LoadConversationsDone(r)
  \/ \E r \in net : LoadMessagesDone(r)
  \/ \E r \in net : MarkReadDone(r)

\* the intervals keep firing, the backend keeps answering and the
\* continuation of an answered fetch runs
Fairness ==
  /\ WF_vars(PollTick /\ CappedInbox)
  /\ WF_vars(MsgPollTick /\ CappedInbox)
  /\ WF_vars(\E r \in net : r.kind = "conv" /\ Answer(r))
  /\ WF_vars(\E r \in net : r.kind = "msgs" /\ Answer(r))
  /\ WF_vars(\E r \in net : r.kind = "conv" /\ r.body # Pending /\ LoadConversationsDone(r))
  /\ WF_vars(\E r \in net : r.kind = "msgs" /\ r.body # Pending /\ LoadMessagesDone(r))
  /\ WF_vars(\E r \in net : MarkReadDone(r))

\* the backend holds both conversations; the first is still to receive its
\* last message
InitLive ==
  ClientInit /\ srv = [x \in Phones |-> IF x = "5730000001" THEN MaxTs - 1 ELSE MaxTs]

SpecLive == InitLive /\ [][NextLive]_vars /\ Fairness

\* at most MaxInflight requests are in flight, MaxPending of a kind other
\* than a product send
CappedActions ==
  /\ Cardinality(net') <= MaxInflight
  /\ \A k \in {"conv", "msgs", "wcproducts", "takeover"} :
       Cardinality({r \in net' : r.kind = k}) <= MaxPending

\* an open chat: the product modal and the takeover button
NextActions ==
  \/ ToggleAttachMenu
  \/ OpenProductModal /\ CappedActions
  \/ \E v \in ProdSearches : TypeProdQ(v) /\ CappedActions
  \/ \E r \in net : LoadWCProductsDone(r)
  \/ \E id \in ProductIds : SendWCProduct(id) /\ CappedActions
  \/ \E r \in net : SendWCProductDone(r) /\ CappedActions
  \/ ToggleTakeover /\ CappedActions
  \/ \E r \in net : TakeoverDone(r) /\ CappedActions
  \/ \E r \in net : Answer(r)
  \/ \E r \in net : LoadMessagesDone(r) /\ CappedActions
  \/ \E r \in net : LoadConversationsDone(r)

SpecActions == InitChatOpen /\ [][NextActions]_vars

\* at most MaxInflight list fetches and read marks and MaxInflight message
\* fetches are in flight
CappedSwitch ==
  /\ Capped
  /\ Cardinality({r \in net' : r.kind = "msgs"}) <= MaxInflight

\* switching between conversations while their messages are polled
NextSwitch ==
  \/ MsgPollTick /\ CappedSwitch
  \/ \E p \in Phones : SelectChat(p) /\ CappedSwitch
  \/ \E r \in net : Answer(r)
  \/ \E r \in net : LoadConversationsDone(r)
  \/ \E r \in net : LoadMessagesDone(r)
  \/ \E r \in net : MarkReadDone(r)

SpecSwitch == InitChatOpen /\ [][NextSwitch]_vars

\* composing while chats are opened; the fetches of the inbox stay pending
NextDraft ==
  \/ NextAttach
  \/ \E t \in Texts : TypeText(t)
  \/ SendMessage /\ CappedComposer
  \/ \E r \in net : IngestDone(r)
  \/ \E p \in Phones \ {selectedPhone} : SelectChat(p) /\ Capped

SpecDraft == InitChatOpen /\ [][NextDraft]_vars

\* the paperclip and the microphone of an open chat used side by side
NextStage ==
  \/ NextAttach
  \/ NextRecorder

SpecStage == InitChatOpen /\ [][NextStage]_vars

\* ------------------------------------------------------------- claims
\* the timestamp cached for a phone by the previous response (0 when none)
CachedTs(prev, p) == IF p \in DOMAIN prev THEN prev[p] ELSE 0

\* the list response just processed holds a conversation of another phone
\* than the selected one whose updated_at is above the cached timestamp
SomeOtherChatAdvanced ==
  \E i \in 1..Len(conversations) :
     /\ conversations[i].updated_at > CachedTs(last.prev, conversations[i].phone)
     /\ conversations[i].phone # selectedPhone

ListProcessed == last.op = "loadConversations" /\ ~last.caught

\* C1: a list response processed after the baseline triggers playDing exactly
\* once when some conversation other than the selected one advanced over its
\* cached timestamp, however many did, and not at all when none did.
C1_DingOncePerResponse ==
  (ListProcessed /\ ~last.baseline) =>
     last.dings = (IF SomeOtherChatAdvanced THEN 1 ELSE 0)

\* C2: the first list response processed after mount triggers no ding and
\* only records the baseline map; a fetch that failed (network error,
\* unparsable body or error status) is never the one taken as baseline.
C2_FirstResponseIsBaseline ==
  (last.op = "loadConversations" /\ last.baseline) =>
     /\ last.dings = 0
     /\ ~last.caught =>
          /\ DOMAIN prevConversations =
               {conversations[i].phone : i \in 1..Len(conversations)}
          /\ \A i \in 1..Len(conversations) :
               prevConversations[conversations[i].phone] = conversations[i].updated_at
     /\ didFirstLoad => last.ok

\* c is t without its leading and trailing spaces
IsTrimOf(c, t) ==
  /\ c # <<>> => c[1] # " " /\ c[Len(c)] # " "
  /\ \E i \in 0..Len(t) :
       /\ i + Len(c) <= Len(t)
       /\ \A k \in 1..Len(t) :
            IF k > i /\ k <= i + Len(c) THEN t[k] = c[k - i] ELSE t[k] = " "

\* sendMessage has just posted a payload for an attachment of this kind
Posted(kind) ==
  last.op = "sendMessage" /\ last.stage = "issued" /\ last.attachment.kind = kind

\* the value of a string field of the attachment, null when it has none
KnownOrNullS(v) == IF v \in {"", UndefS, NullS} THEN NullS ELSE v

\* the value of a number field of the attachment, null when it has none
KnownOrNullN(v) == IF v <= 0 THEN NullN ELSE v

\* C3: with a media attachment staged the payload has the attachment's
\* msg_type, an empty text, the trimmed composer text as media_caption (the
\* empty text when there is none), the media_id, and mime_type, file_name,
\* file_size and duration_sec all present, null when the attachment has none.
C3_MediaPayload ==
  Posted("media") =>
    LET p == last.payload
        a == last.attachment
    IN /\ {"msg_type", "text", "media_id", "media_caption", "mime_type",
           "file_name", "file_size", "duration_sec"} \subseteq DOMAIN p
       /\ p.msg_type = a.msg_type
       /\ p.text = <<>>
       /\ IsTrimOf(p.media_caption, last.text)
       /\ p.media_id = a.media_id
       /\ p.mime_type = KnownOrNullS(a.mime_type)
       /\ p.file_name = KnownOrNullS(a.filename)
       /\ p.file_size = KnownOrNullN(a.file_size)
       /\ p.duration_sec = KnownOrNullN(a.duration_sec)

\* a media attachment without file name or duration is sent with a text of spaces
C3_Witness ==
  /\ Posted("media")
  /\ last.text # <<>> /\ \A k \in 1..Len(last.text) : last.text[k] = " "
  /\ last.attachment.filename = UndefS /\ last.attachment.duration_sec = NullN
  /\ last.payload.media_caption = <<>>
  /\ last.payload.file_name = NullS

\* C4: with a product attachment staged the payload has msg_type "product"
\* and the attachment's own text, whatever the composer text is, and forwards
\* featured_image, real_image and permalink (null when the attachment has none).
C4_ProductPayload ==
  Posted("product") =>
    LET p == last.payload
        a == last.attachment
    IN /\ {"msg_type", "text", "featured_image", "real_image", "permalink"}
            \subseteq DOMAIN p
       /\ p.msg_type = "product"
       /\ p.text = a.text
       /\ p.featured_image = KnownOrNullS(a.featured_image)
       /\ p.real_image = KnownOrNullS(a.real_image)
       /\ p.permalink = KnownOrNullS(a.permalink)

\* a product without text is sent while the composer holds a text
C4_Witness ==
  /\ Posted("product")
  /\ last.attachment.text = <<>>
  /\ \E k \in 1..Len(last.text) : last.text[k] # " "
  /\ last.payload.text = <<>>

SendFailed == last.op = "sendMessage" /\ last.stage = "failed"

\* C5: when the ingest request fails or is answered with a non-2xx status the
\* failure notice is shown and the handler leaves the composer text and the
\* staged attachment as they were.
C5_FailedSendKeepsDraft ==
  SendFailed =>
    /\ notice = "Error enviando mensaje"
    /\ text = last.text
    /\ attachment = last.attachment

\* a send of a text with an attachment has failed
C5_Witness ==
  SendFailed /\ last.text # <<>> /\ last.attachment # NoAttachment /\ text # <<>>

\* C6: once the ingest request is answered 2xx a message fetch for the
\* conversation is in flight, and when sendMessage completes the text is
\* empty, no attachment is staged, the attach menu is closed and a
\* conversation-list fetch is in flight.
C6_SentClearsComposer ==
  /\ (last.op = "sendMessage" /\ last.stage = "accepted") =>
       \E r \in net : r.kind = "msgs" /\ r.phone = last.phone /\ r.body = Pending
  /\ (last.op = "sendMessage" /\ last.stage = "done") =>
       /\ text = <<>>
       /\ attachment = NoAttachment
       /\ showAttachMenu = FALSE
       /\ \E r \in net : r.kind = "conv" /\ r.body = Pending

\* a send completes while a text and an attachment are in the composer and
\* the attach menu is open
C6_Witness ==
  /\ last.op = "sendMessage" /\ last.stage = "done"
  /\ last.text # <<>> /\ last.attachment # NoAttachment /\ last.menu

\* C7: the attachment staged by a recording is media / audio and its
\* duration_sec is the number of ticks of that recording.
C7_DurationIsElapsed ==
  (last.op = "audioUpload" /\ last.staged) =>
    /\ attachment.kind = "media"
    /\ attachment.msg_type = "audio"
    /\ attachment.duration_sec = KnownOrNullN(last.ticks)

\* sessions whose stream is open and whose recorder has not been stopped
Capturing == {x \in sessions : x.stream = "open" /\ x.rec = "recording"}

\* C8: at most one capture session exists at any time.
C8_OneCaptureSession == Cardinality(Capturing) <= 1

\* C9: once recording has stopped (isRecording is false and no stop event is
\* still to be delivered) no acquired stream is open.
C9_StreamsReleased ==
  (~isRecording /\ \A x \in sessions : x.rec # "stopped") =>
     \A x \in sessions : x.stream = "closed"

\* C10: startRecording clears the staged attachment no later than it asks
\* for the microphone: right after it the attachment is gone and the
\* permission request is still unanswered.
C10_AttachmentClearedFirst ==
  last.op = "startRecording" =>
    /\ attachment = NoAttachment
    /\ \E r \in net : r.kind = "mic" /\ r.id = nextSession

\* a recording is started while an attachment is staged
C10_Witness == last.op = "startRecording" /\ last.had # NoAttachment

\* C11: the manual refresh issues a model-list request for the provider even
\* when a non-empty list is cached for it, and a request that succeeds leaves
\* the provider with the list it fetched.
C11_RefreshRefetches ==
  /\ last.op = "forceReloadModels" =>
       /\ last.issued
       /\ \E r \in net : r.kind = "modelsLive" /\ r.provider = last.provider
  /\ last.op = "loadModels" => modelsByProvider[last.provider] = last.list

\* settings from a response (load, or save answered 2xx) have just been applied
SettingsApplied ==
  \/ last.op = "loadSettings" /\ last.applied
  \/ last.op = "saveSettings" /\ last.stage = "done" /\ last.applied

InRange(f, v) == v # NaN /\ v >= Range[f].min /\ v <= Range[f].max

\* C12: after a settings response is applied every numeric field of the
\* draft is inside its range, and a field the response lacks or holds no
\* number for has its default.
C12_LoadedDraftInRange ==
  SettingsApplied =>
    \A f \in NumericFields :
       /\ InRange(f, draft[f])
       /\ last.data[f] \in {UndefN, NullN, NonNumeric} => draft[f] = Range[f].def

\* C13: every numeric field of the payload of saveSettings is inside its
\* range: the maximum for a draft value above it, the minimum for one below
\* it, the value itself otherwise.
C13_SavedPayloadClamped ==
  (last.op = "saveSettings" /\ last.stage = "issued") =>
    \A f \in NumericFields :
       LET v == last.draft[f]
           p == last.payload[f]
       IN /\ InRange(f, p)
          /\ v # NaN => p = (IF v > Range[f].max THEN Range[f].max
                             ELSE IF v < Range[f].min THEN Range[f].min ELSE v)

\* a draft with temperature 5 and reply_delay_ms -100 is saved as 2 and 0
C13_Witness ==
  /\ last.op = "saveSettings" /\ last.stage = "issued"
  /\ last.draft.temperature = 50 /\ last.payload.temperature = 20
  /\ last.draft.reply_delay_ms = -100 /\ last.payload.reply_delay_ms = 0

\* C14: a conversation-list or message-list fetch that fails (network error,
\* unparsable body or error status) leaves the displayed list, the displayed
\* messages, the timestamp map and the baseline flag as they were.
C14_FailedFetchKeepsData ==
  [][((last'.op = "loadConversations" \/ last'.op = "loadMessages") /\ ~last'.ok)
       => UNCHANGED <<conversations, messages, prevConversations, didFirstLoad>>]_vars

CrmSaveFailed == last.op = "crmSave" /\ last.stage = "done" /\ ~last.ok

\* C15: when the CRM save is answered with a non-2xx status (or fails) the
\* handler leaves the form dirty, shows the failure message, returns the
\* saving flag to false and leaves every field value as entered.
C15_FailedCrmSaveKeepsForm ==
  CrmSaveFailed =>
    /\ crmDirty = last.dirty
    /\ crmStatus = "Error al guardar"
    /\ ~crmSaving
    /\ crmForm = last.form

\* a dirty form with an entered value has failed to save
C15_Witness ==
  /\ CrmSaveFailed /\ last.dirty /\ crmDirty
  /\ crmForm.notes = "x"

\* C16: selecting a conversation issues a read-mark request for its phone,
\* and when that request has settled, fulfilled or rejected, selectChat
\* issues a conversation-list fetch at once.
C16_SelectMarksReadThenReloads ==
  /\ last.op = "selectChat" =>
       \E r \in net : r.kind = "read" /\ r.phone = last.phone /\ r.then = "selectChat"
  /\ (last.op = "markRead" /\ last.then = "selectChat") =>
       ConvReq(last.sel, last.q) \in net

\* the read mark of a newly selected conversation was rejected
C16_Witness ==
  /\ last.op = "markRead" /\ last.then = "selectChat" /\ ~last.ok
  /\ last.phone = selectedPhone /\ last.sel # last.phone
  /\ ConvReq(last.sel, last.q) \in net

\* C17: after every applied conversation-list response the inbox shows the
\* conversations of that response in the order of that response, whatever
\* the search text is.
C17_ListShownVerbatim ==
  ListProcessed => ChatList(conversations, q) = last.list

\* the response to a fetch made before the search text was typed is shown
C17_Witness ==
  /\ ListProcessed /\ q # ""
  /\ \E i \in 1..Len(last.list) : last.list[i].phone # q
  /\ Len(ChatList(conversations, q)) = 2

\* C18: at most one conversation polling timer and at most one message
\* polling timer are active, each is the one of the current selection and
\* search text, and none is active after unmount.
C18_OneTimerPerConcern ==
  /\ Cardinality(convTimers) <= 1
  /\ Cardinality(msgTimers) <= 1
  /\ mounted =>
       /\ convTimers = {ConvTimer(selectedPhone, q)}
       /\ msgTimers = IF selectedPhone = NoPhone THEN {} ELSE {MsgTimer(selectedPhone)}
  /\ ~mounted => convTimers = {} /\ msgTimers = {}

\* a chat is open and a search is typed: the timers have been restarted
C18_Witness ==
  /\ mounted /\ selectedPhone # NoPhone /\ q # ""
  /\ convTimers = {ConvTimer(selectedPhone, q)}

\* the last step was a selection or a search edit
UserStep == last.op \in {"selectChat", "setSearch"}

\* the last step was the continuation of a fetch that failed
FetchFailed == last.op \in {"loadConversations", "loadMessages"} /\ ~last.ok

\* the inbox shows the server's list for the search text and the chat
\* window the server's messages of the selected conversation
Consistent ==
  /\ conversations = ServerSearch(srv, q)
  /\ selectedPhone # NoPhone => messages = ServerMessages(selectedPhone, srv)

\* C19: if from some point on the user changes neither selection nor search
\* and no fetch fails (the backend's data stops changing by itself), then
\* from some point on the displayed list and messages are the server's.
C19_EventuallyConsistent == (<>[](~UserStep /\ ~FetchFailed)) => <>[]Consistent

\* the answer to a fetch made before the backend changed is applied late
C19_Witness ==
  /\ last.op = "loadConversations" /\ last.ok /\ ~last.baseline
  /\ conversations # ServerSearch(srv, q)
  /\ \E r \in net : r.kind = "conv" /\ r.body # Pending
                    /\ r.body.data.conversations = ServerSearch(srv, q)

\* C20: no network failure of a user-initiated action escapes its handler
\* as an unhandled error (product send and takeover toggle).
C20_FailuresCaught == escaped = {}

\* C21: sendWCProduct issues no request for a product while an earlier
\* request for the same product has not completed.
C21_ProductSentOnce ==
  (last.op = "sendWCProduct" /\ last.stage = "request") => last.id \notin last.inflight

\* the chat window shows messages of p only, and at least one
ShowsChatOf(msgs, p) ==
  /\ p # NoPhone /\ msgs # <<>>
  /\ \A i \in 1..Len(msgs) : msgs[i].phone = p

\* a step in which a new message arrives in the open chat
UpdateArrives ==
  /\ selectedPhone' = selectedPhone
  /\ ShowsChatOf(messages, selectedPhone)
  /\ ShowsChatOf(messages', selectedPhone)
  /\ Len(messages') > Len(messages)

\* C22: when an update (a new message) arrives for the open conversation, a
\* read-mark request is issued for it.
C22_UpdateMarksRead ==
  [][UpdateArrives =>
       \E r \in net' : r.kind = "read" /\ r.phone = selectedPhone]_vars

\* model is among the entries of options
Listed(model, options) == \E i \in 1..Len(options) : options[i] = model

C24_MessagesOfSelected ==
  (last.op = "loadMessages" /\ last.ok) =>
    /\ last.phone = selectedPhone
    /\ \A i \in 1..Len(messages) : messages[i].phone = selectedPhone

\* C25: every field value of a CRM save request was loaded for, or typed
\* while viewing, the phone the request is submitted under (or is the blank
\* the form starts with).
C25_CrmSaveOwnValues ==
  (last.op = "crmSave" /\ last.stage = "issued") =>
    \A f \in CrmFields : last.owners[f] \in {last.phone, NoPhone}

\* C29: a form that is marked clean while no load is in flight holds the
\* values last loaded or last saved with success.
C29_CleanFormIsSynced ==
  (~crmDirty /\ ~\E r \in net : r.kind = "crmLoad") =>
    crmForm \in {crmSynced.loaded, crmSynced.saved}

\* sendMessage has just issued its ingest request
SendIssued == last.op = "sendMessage" /\ last.stage = "issued"

\* C26: the phone of an ingest payload is the phone that was selected when
\* the text it carries was typed and when the attachment it carries was
\* staged.
C26_SentWhereStaged ==
  SendIssued =>
    /\ Trim(last.text) # <<>> => stagedFor.text = last.payload.phone
    /\ last.attachment # NoAttachment => stagedFor.attachment = last.payload.phone

\* C27: sendMessage issues no ingest request while one with the same text
\* and attachment is still in flight.
C27_SubmittedOnce == SendIssued => ~last.again

\* C28: whenever a recording is running no attachment is staged, whether a
\* file is picked during the recording or an earlier upload completes late.
C28_NothingStagedWhileRecording == isRecording => attachment = NoAttachment

RECURSIVE DingPhone(_, _, _)
\* the phone of the entry at which the loop over the list called playDing
DingPhone(list, prev, sel) ==
  IF list = <<>> THEN NoPhone
  ELSE IF Advanced(Head(list), prev, sel) THEN Head(list).phone
  ELSE DingPhone(Tail(list), prev, sel)

\* C30: a list response never triggers the ding on account of the
\* conversation that is selected when the response is processed, whichever
\* call issued the fetch.
C30_NoDingForSelected ==
  (ListProcessed /\ last.dings = 1) =>
     DingPhone(last.list, last.prev, last.closed) # selectedPhone
====
